---- MODULE Spec2Model ----
(***************************************************************************)
(* Content-workflow platform: the invoice, project and task write paths    *)
(* (backend/routes/*.js) together with the Mongoose schemas' pre-save      *)
(* hooks and validators (backend/models/*.js).                             *)
(*                                                                         *)
(* Money is kept in hundredths of a currency unit, so that the percentage  *)
(* computations of the pre-save hook (x * rate / 100) stay exact.          *)
(* Strings that the code formats, parses or compares (the invoice number)  *)
(* are sequences of character codes.  Dates are clock ticks; an unset date *)
(* is NoDate.                                                              *)
(***************************************************************************)
EXTENDS Integers, Sequences, FiniteSets, TLC

\* ------------------------------------------------------------------ bounds
MaxSteps == 5         \* requests (and clock advances) in one behaviour
TicksPerYear == 2     \* clock ticks per calendar year
FirstYear == 2025     \* the calendar year of tick 1

Users == {"u1", "u2"}

\* an unset Date field (undefined)
NoDate == 0

\* ------------------------------------------------------------------ strings
\* 'INV-' as character codes
INVDash == <<73, 78, 86, 45>>
\* '-'
DashChar == INVDash[4]
\* 'NaN'
NaNString == <<78, 97, 78>>
\* the value NaN of a failed parseInt
NaN == -1

\* the character of decimal digit d
DigitChar(d) == 48 + d

IsDigitChar(c) == c >= DigitChar(0) /\ c <= DigitChar(9)

RECURSIVE NatToString(_)
NatToString(n) ==
  IF n < 10 THEN <<DigitChar(n)>>
  ELSE Append(NatToString(n \div 10), DigitChar(n % 10))

\* Number.prototype.toString
NumberToString(n) == IF n = NaN THEN NaNString ELSE NatToString(n)

\* String.prototype.padStart
padStart(s, targetLength, padChar) ==
  IF Len(s) >= targetLength THEN s
  ELSE [i \in 1..(targetLength - Len(s)) |-> padChar] \o s

\* String.prototype.split on a one-character separator
RECURSIVE split(_, _)
split(s, sep) ==
  IF \A i \in 1..Len(s) : s[i] # sep THEN <<s>>
  ELSE LET k == CHOOSE i \in 1..Len(s) :
                   s[i] = sep /\ \A j \in 1..(i - 1) : s[j] # sep
       IN <<SubSeq(s, 1, k - 1)>> \o split(SubSeq(s, k + 1, Len(s)), sep)

\* parseInt of a string: the value of its leading run of digits, NaN if none
RECURSIVE DigitsValue(_)
DigitsValue(s) ==
  IF Len(s) = 0 THEN 0
  ELSE 10 * DigitsValue(SubSeq(s, 1, Len(s) - 1)) + (s[Len(s)] - DigitChar(0))

parseInt(s) ==
  LET run == CHOOSE n \in 0..Len(s) :
                 /\ \A i \in 1..n : IsDigitChar(s[i])
                 /\ (n < Len(s) => ~IsDigitChar(s[n + 1]))
  IN IF run = 0 THEN NaN ELSE DigitsValue(SubSeq(s, 1, run))

\* the regular expression ^prefix
StartsWith(s, prefix) ==
  Len(s) >= Len(prefix) /\ SubSeq(s, 1, Len(prefix)) = prefix

\* binary string order, as MongoDB sorts strings
StringLess(a, b) ==
  \/ \E k \in 1..Len(a) :
        /\ k <= Len(b)
        /\ \A i \in 1..(k - 1) : a[i] = b[i]
        /\ a[k] < b[k]
  \/ Len(a) < Len(b) /\ SubSeq(b, 1, Len(a)) = a

\* ------------------------------------------------------------------ state
VARIABLES
  steps,          \* requests handled so far
  now,            \* the clock: new Date()
  clients,        \* Client collection: _id -> document
  projects,       \* Project collection: _id -> document
  tasks,          \* Task collection: _id -> document
  invoices,       \* Invoice collection: _id -> document
  nextId,         \* ObjectId allocation, per collection
  issued,         \* invoice numbers handed out by successful POST /invoices
  requests,       \* POST /invoices requests handled step by step
  last            \* the last request handled and its response

vars == <<steps, now, clients, projects, tasks, invoices, nextId, issued, requests, last>>

\* new Date().getFullYear()
getFullYear(t) == FirstYear + ((t - 1) \div TicksPerYear)

\* Object.assign(target, source) / object spread
ObjectAssign(target, source) ==
  [f \in (DOMAIN target) \cup (DOMAIN source) |->
     IF f \in DOMAIN source THEN source[f] ELSE target[f]]

Has(obj, f) == f \in DOMAIN obj

\* Model.findOne({_id: id, user: userId})
FindOwned(coll, id, u) == id \in DOMAIN coll /\ coll[id].user = u

\* Model.findByIdAndDelete / findOneAndDelete
Remove(coll, id) == [k \in (DOMAIN coll) \ {id} |-> coll[k]]

Init ==
  /\ steps = 0
  /\ now = 1
  /\ clients = <<>>
  /\ projects = <<>>
  /\ tasks = <<>>
  /\ invoices = <<>>
  /\ nextId = [client |-> 1, project |-> 1, task |-> 1, invoice |-> 1]
  /\ issued = <<>>
  /\ requests = <<>>
  /\ last = [op |-> "none", user |-> "none", id |-> 0, body |-> <<>>, code |-> 0]

\* res.status(code).json(...)
Respond(op, u, id, body, code) ==
  last' = [op |-> op, user |-> u, id |-> id, body |-> body, code |-> code]

\* time passes between requests: by one tick, or by a year
Tick(d) ==
  /\ now' = now + d
  /\ UNCHANGED <<clients, projects, tasks, invoices, nextId, issued, requests, last>>

\* ------------------------------------------------------------------ clients
ClientEmail == "client@example.com"

\* POST /api/clients
CreateClient(u) ==
  /\ clients' = clients @@ (nextId.client :> [_id |-> nextId.client, user |-> u,
                                               email |-> ClientEmail])
  /\ nextId' = [nextId EXCEPT !.client = @ + 1]
  /\ Respond("POST /clients", u, nextId.client, <<>>, 201)
  /\ UNCHANGED <<now, projects, tasks, invoices, issued, requests>>

\* PUT /api/clients/:id: findOneAndUpdate of req.body
UpdateClient(u, id, body) ==
  /\ IF ~FindOwned(clients, id, u)
     THEN /\ Respond("PUT /clients/:id", u, id, body, 404)
          /\ UNCHANGED clients
     ELSE /\ clients' = [clients EXCEPT ![id] = ObjectAssign(@, body)]
          /\ Respond("PUT /clients/:id", u, id, body, 200)
  /\ UNCHANGED <<now, projects, tasks, invoices, nextId, issued, requests>>

\* a count that finds no project
noActiveProjects(u, id) == 0

\* Project.countDocuments({client, user, status: {$in: [planning, active, on-hold]}})
activeProjects(u, id) ==
  Cardinality({p \in DOMAIN projects :
                 /\ projects[p].client = id
                 /\ projects[p].user = u
                 /\ projects[p].status \in {"planning", "active", "on-hold"}})

\* DELETE /api/clients/:id: the project count comes before the lookup
DeleteClient(u, id) ==
  /\ IF activeProjects(u, id) > 0
     THEN /\ Respond("DELETE /clients/:id", u, id, <<>>, 400)
          /\ UNCHANGED clients
     ELSE IF ~FindOwned(clients, id, u)
     THEN /\ Respond("DELETE /clients/:id", u, id, <<>>, 404)
          /\ UNCHANGED clients
     ELSE /\ clients' = Remove(clients, id)
          /\ Respond("DELETE /clients/:id", u, id, <<>>, 200)
  /\ UNCHANGED <<now, projects, tasks, invoices, nextId, issued, requests>>

\* ------------------------------------------------------------------ invoice model
InvoiceStatus == {"draft", "sent", "viewed", "paid", "overdue", "cancelled"}

\* the schema defaults of an Invoice document
InvoiceDefaults ==
  [status |-> "draft", paidDate |-> NoDate, subtotal |-> 0, taxRate |-> 0,
   taxAmount |-> 0, discountRate |-> 0, discountAmount |-> 0, total |-> 0,
   notes |-> "", emailHistory |-> <<>>]

\* items.reduce((sum, item) => sum + item.amount, 0)
RECURSIVE SumAmounts(_)
SumAmounts(items) ==
  IF Len(items) = 0 THEN 0
  ELSE SumAmounts(SubSeq(items, 1, Len(items) - 1)) + items[Len(items)].amount

\* schema validation, which save() runs before the pre('save') hook
ValidateInvoice(doc) ==
  /\ \A i \in 1..Len(doc.items) :
        /\ Has(doc.items[i], "amount") /\ doc.items[i].amount >= 0
        /\ doc.items[i].quantity >= 0
        /\ doc.items[i].rate >= 0
  /\ doc.subtotal >= 0
  /\ doc.taxRate >= 0 /\ doc.taxRate <= 100
  /\ doc.taxAmount >= 0
  /\ doc.discountRate >= 0 /\ doc.discountRate <= 100
  /\ doc.discountAmount >= 0
  /\ doc.total >= 0
  /\ doc.status \in InvoiceStatus

\* a hook that keeps the totals the document already carries
PreSaveInvoiceKeepingTotals(doc, statusModified, t) ==
  ObjectAssign(doc,
    [paidDate |-> IF statusModified /\ doc.status = "paid" /\ doc.paidDate = NoDate
                  THEN t ELSE doc.paidDate])

\* invoiceSchema.pre('save'): recompute the totals, stamp paidDate
PreSaveInvoice(doc, statusModified, t) ==
  LET items == [i \in 1..Len(doc.items) |->
                  ObjectAssign(doc.items[i],
                     [amount |-> doc.items[i].quantity * doc.items[i].rate])]
      subtotal == SumAmounts(items)
      taxAmount == (subtotal * doc.taxRate) \div 100
      discountAmount == (subtotal * doc.discountRate) \div 100
      total == subtotal + taxAmount - discountAmount
      paidDate == IF statusModified /\ doc.status = "paid" /\ doc.paidDate = NoDate
                  THEN t ELSE doc.paidDate
  IN ObjectAssign(doc,
       [items |-> items, subtotal |-> subtotal, taxAmount |-> taxAmount,
        discountAmount |-> discountAmount, total |-> total, paidDate |-> paidDate])

\* a collection without the unique index
NoUniqueIndex(coll, doc) == TRUE

\* the unique index on invoiceNumber: no other document carries doc's number
UniqueInvoiceNumber(coll, doc) ==
  \A id \in DOMAIN coll :
     id # doc._id => coll[id].invoiceNumber # doc.invoiceNumber

\* `INV-${year}-`
InvoicePrefix(year) == INVDash \o NatToString(year) \o <<DashChar>>

\* `${prefix}${nextNumber.toString().padStart(4, '0')}`
FormatInvoiceNumber(year, nextNumber) ==
  InvoicePrefix(year) \o padStart(NumberToString(nextNumber), 4, DigitChar(0))

\* invoiceSchema.statics.generateInvoiceNumber
generateInvoiceNumber(coll, userId, t) ==
  LET year == getFullYear(t)
      prefix == InvoicePrefix(year)
      found == {id \in DOMAIN coll :
                  coll[id].user = userId /\ StartsWith(coll[id].invoiceNumber, prefix)}
      lastInvoice == CHOOSE id \in found :
                       \A o \in found :
                          ~StringLess(coll[id].invoiceNumber, coll[o].invoiceNumber)
      pieces == split(coll[lastInvoice].invoiceNumber, DashChar)
      lastNumber == IF Len(pieces) >= 3 THEN parseInt(pieces[3]) ELSE NaN
      nextNumber == IF found = {} THEN 1
                    ELSE IF lastNumber = NaN THEN NaN ELSE lastNumber + 1
  IN FormatInvoiceNumber(year, nextNumber)

\* new Invoice({...req.body, user, invoiceNumber})
NewInvoice(id, u, body, invoiceNumber) ==
  ObjectAssign(ObjectAssign(InvoiceDefaults, body),
               [_id |-> id, user |-> u, invoiceNumber |-> invoiceNumber])

\* document.save() goes through: validation passes and the unique index admits
\* the write; otherwise save() throws
CanSaveInvoice(coll, doc) == ValidateInvoice(doc) /\ UniqueInvoiceNumber(coll, doc)

\* document.save(): the pre('save') hook, then the write
SaveInvoice(coll, doc, statusModified, t) ==
  [k \in (DOMAIN coll) \cup {doc._id} |->
     IF k = doc._id THEN PreSaveInvoice(doc, statusModified, t) ELSE coll[k]]

\* ------------------------------------------------------------------ invoice routes
\* POST /api/invoices from `new Invoice(invoiceData)` on, for a generated number
CreateInvoiceSave(u, body, invoiceNumber) ==
  LET doc == NewInvoice(nextId.invoice, u, body, invoiceNumber)
  IN IF CanSaveInvoice(invoices, doc)
     THEN /\ invoices' = SaveInvoice(invoices, doc, Has(body, "status"), now)
          /\ nextId' = [nextId EXCEPT !.invoice = @ + 1]
          /\ issued' = Append(issued, [user |-> u, year |-> getFullYear(now),
                                       invoiceNumber |-> invoiceNumber])
          /\ Respond("POST /invoices", u, nextId.invoice, body, 201)
     ELSE /\ Respond("POST /invoices", u, 0, body, 500)
          /\ UNCHANGED <<invoices, nextId, issued>>

\* POST /api/invoices
CreateInvoice(u, body) ==
  /\ IF ~FindOwned(clients, body.client, u)
     THEN /\ Respond("POST /invoices", u, 0, body, 400)
          /\ UNCHANGED <<invoices, nextId, issued>>
     ELSE CreateInvoiceSave(u, body, generateInvoiceNumber(invoices, u, now))
  /\ UNCHANGED <<now, clients, projects, tasks, requests>>

\* a guard that exempts a body changing nothing but the status
PaidLockedExceptStatusOnly(invoice, body) ==
  invoice.status = "paid" /\ DOMAIN body # {"status"}

\* the guard of PUT /api/invoices/:id ("Don't allow editing paid invoices")
PaidLocked(invoice, body) ==
  invoice.status = "paid" /\ (~Has(body, "status") \/ body.status # "paid")

\* PUT /api/invoices/:id
UpdateInvoice(u, id, body) ==
  /\ IF ~FindOwned(invoices, id, u)
     THEN /\ Respond("PUT /invoices/:id", u, id, body, 404)
          /\ UNCHANGED invoices
     ELSE IF PaidLocked(invoices[id], body)
     THEN /\ Respond("PUT /invoices/:id", u, id, body, 400)
          /\ UNCHANGED invoices
     ELSE LET doc == ObjectAssign(invoices[id], body)
              statusModified == Has(body, "status") /\ body.status # invoices[id].status
          IN IF CanSaveInvoice(invoices, doc)
             THEN /\ invoices' = SaveInvoice(invoices, doc, statusModified, now)
                  /\ Respond("PUT /invoices/:id", u, id, body, 200)
             ELSE /\ Respond("PUT /invoices/:id", u, id, body, 500)
                  /\ UNCHANGED invoices
  /\ UNCHANGED <<now, clients, projects, tasks, nextId, issued, requests>>

\* 'Invoice '
InvoiceSpace == <<73, 110, 118, 111, 105, 99, 101, 32>>

\* POST /api/invoices/:id/send
SendInvoice(u, id) ==
  /\ IF ~FindOwned(invoices, id, u)
     THEN /\ Respond("POST /invoices/:id/send", u, id, <<>>, 404)
          /\ UNCHANGED invoices
     ELSE IF invoices[id].status = "paid"
     THEN /\ Respond("POST /invoices/:id/send", u, id, <<>>, 400)
          /\ UNCHANGED invoices
     ELSE IF invoices[id].client \notin DOMAIN clients
     THEN \* populate leaves client null: reading client.email throws
          /\ Respond("POST /invoices/:id/send", u, id, <<>>, 500)
          /\ UNCHANGED invoices
     ELSE LET entry == [sentAt |-> now, sentTo |-> clients[invoices[id].client].email,
                        subject |-> InvoiceSpace \o invoices[id].invoiceNumber,
                        status |-> "sent"]
              doc == ObjectAssign(invoices[id],
                        [status |-> "sent",
                         emailHistory |-> Append(invoices[id].emailHistory, entry)])
          IN IF CanSaveInvoice(invoices, doc)
             THEN /\ invoices' = SaveInvoice(invoices, doc,
                                             invoices[id].status # "sent", now)
                  /\ Respond("POST /invoices/:id/send", u, id, <<>>, 200)
             ELSE /\ Respond("POST /invoices/:id/send", u, id, <<>>, 500)
                  /\ UNCHANGED invoices
  /\ UNCHANGED <<now, clients, projects, tasks, nextId, issued, requests>>

\* an update document that sets the status alone
MarkPaidStatusOnly(t) == [status |-> "paid"]

\* the update document of PUT /api/invoices/:id/mark-paid
MarkPaidUpdate(t) == [status |-> "paid", paidDate |-> t]

\* PUT /api/invoices/:id/mark-paid: findOneAndUpdate, which runs no save hook
MarkPaid(u, id) ==
  /\ IF ~FindOwned(invoices, id, u)
     THEN /\ Respond("PUT /invoices/:id/mark-paid", u, id, <<>>, 404)
          /\ UNCHANGED invoices
     ELSE /\ invoices' = [invoices EXCEPT ![id] = ObjectAssign(@, MarkPaidUpdate(now))]
          /\ Respond("PUT /invoices/:id/mark-paid", u, id, <<>>, 200)
  /\ UNCHANGED <<now, clients, projects, tasks, nextId, issued, requests>>

\* a delete route without the paid check
DeleteInvoiceWhateverStatus(u, id) ==
  /\ IF ~FindOwned(invoices, id, u)
     THEN /\ Respond("DELETE /invoices/:id", u, id, <<>>, 404)
          /\ UNCHANGED invoices
     ELSE /\ invoices' = Remove(invoices, id)
          /\ Respond("DELETE /invoices/:id", u, id, <<>>, 200)
  /\ UNCHANGED <<now, clients, projects, tasks, nextId, issued, requests>>

\* DELETE /api/invoices/:id
DeleteInvoice(u, id) ==
  /\ IF ~FindOwned(invoices, id, u)
     THEN /\ Respond("DELETE /invoices/:id", u, id, <<>>, 404)
          /\ UNCHANGED invoices
     ELSE IF invoices[id].status = "paid"
     THEN /\ Respond("DELETE /invoices/:id", u, id, <<>>, 400)
          /\ UNCHANGED invoices
     ELSE /\ invoices' = Remove(invoices, id)
          /\ Respond("DELETE /invoices/:id", u, id, <<>>, 200)
  /\ UNCHANGED <<now, clients, projects, tasks, nextId, issued, requests>>

\* ------------------------------------------------------------------ invoice requests
\* line items as a request carries them: quantity, rate (in hundredths) and the
\* amount the caller supplied, if any
ItemsExample == <<[quantity |-> 2, rate |-> 5000, amount |-> 10000],
                  [quantity |-> 1, rate |-> 3000, amount |-> 3000]>>
ItemsWrongAmount == <<[quantity |-> 1, rate |-> 3000, amount |-> 700]>>
ItemsNoAmount == <<[quantity |-> 1, rate |-> 3000]>>

\* a total the caller made up
BogusTotal == 99900

ClientIds == 1..nextId.client
InvoiceIds == 1..nextId.invoice

\* bodies of POST /api/invoices
CreateBodies ==
  {[client |-> c, items |-> l] : c \in ClientIds, l \in {ItemsWrongAmount, ItemsNoAmount}}
  \cup {[client |-> c, items |-> ItemsExample, taxRate |-> 10, discountRate |-> 5,
         subtotal |-> BogusTotal, total |-> BogusTotal] : c \in ClientIds}

\* bodies of PUT /api/invoices/:id
UpdateBodies ==
  {[status |-> s] : s \in InvoiceStatus}
  \cup {[notes |-> "edited"],
        [status |-> "paid", notes |-> "edited"],
        [taxRate |-> 10, discountRate |-> 5],
        [items |-> ItemsExample, subtotal |-> BogusTotal, total |-> BogusTotal],
        [items |-> ItemsNoAmount],
        [emailHistory |-> <<>>],
        [user |-> "u2"]}

\* every request, and every advance of the clock, counts against MaxSteps
Step == steps < MaxSteps /\ steps' = steps + 1

\* one request at a time, each handled to completion
Next ==
  \/ \E d \in {1, TicksPerYear} : Step /\ Tick(d)
  \/ \E u \in Users : Step /\ CreateClient(u)
  \/ \E u \in Users, id \in ClientIds : Step /\ DeleteClient(u, id)
  \/ \E u \in Users, body \in CreateBodies : Step /\ CreateInvoice(u, body)
  \/ \E u \in Users, id \in InvoiceIds, body \in UpdateBodies :
        Step /\ UpdateInvoice(u, id, body)
  \/ \E u \in Users, id \in InvoiceIds : Step /\ SendInvoice(u, id)
  \/ \E u \in Users, id \in InvoiceIds : Step /\ MarkPaid(u, id)
  \/ \E u \in Users, id \in InvoiceIds : Step /\ DeleteInvoice(u, id)

Spec == Init /\ [][Next]_vars

\* ------------------------------------------------------------------ invoice claims
\* the derived money fields of one invoice agree with its items and rates
TotalsConsistent(inv) ==
  /\ \A i \in 1..Len(inv.items) :
        inv.items[i].amount = inv.items[i].quantity * inv.items[i].rate
  /\ inv.subtotal = SumAmounts(inv.items)
  /\ inv.taxAmount * 100 = inv.subtotal * inv.taxRate
  /\ inv.discountAmount * 100 = inv.subtotal * inv.discountRate
  /\ inv.total = inv.subtotal + inv.taxAmount - inv.discountAmount

\* C1: in every reachable state every stored invoice has item.amount =
\* quantity * rate, subtotal = sum of the amounts, taxAmount = subtotal * taxRate
\* / 100, discountAmount = subtotal * discountRate / 100 and total = subtotal +
\* taxAmount - discountAmount, whatever amounts and totals the requests carried.
C1_TotalsRecomputed ==
  \A id \in DOMAIN invoices : TotalsConsistent(invoices[id])

\* C1 witness: a write whose request carried a made-up subtotal and total was
\* accepted, and the stored invoice holds the spec's example figures
\* (130, 13, 6.5, 136.5, in hundredths).
C1_Witness ==
  /\ last.op \in {"POST /invoices", "PUT /invoices/:id"}
  /\ last.code \in {200, 201}
  /\ Has(last.body, "total") /\ last.body.total = BogusTotal
  /\ last.id \in DOMAIN invoices
  /\ invoices[last.id].taxRate = 10 /\ invoices[last.id].discountRate = 5
  /\ invoices[last.id].subtotal = 13000
  /\ invoices[last.id].taxAmount = 1300
  /\ invoices[last.id].discountAmount = 650
  /\ invoices[last.id].total = 13650

\* the fields of an invoice other than its status
NonStatusFields(inv) == [f \in (DOMAIN inv) \ {"status"} |-> inv[f]]

\* C2: a PUT /invoices/:id on a paid invoice whose body carries a field other
\* than status is rejected, and the stored invoice keeps its non-status fields.
C2_PaidLockRejectsFieldEdits ==
  [][\A u \in Users, id \in DOMAIN invoices, body \in UpdateBodies :
       ( /\ FindOwned(invoices, id, u)
         /\ invoices[id].status = "paid"
         /\ DOMAIN body # {"status"}
         /\ UpdateInvoice(u, id, body) )
       => /\ last'.code = 400
          /\ NonStatusFields(invoices'[id]) = NonStatusFields(invoices[id])]_vars

\* C3: once an invoice's paidDate is set it keeps that value for as long as the
\* invoice is stored.
C3_PaidDateNeverChanges ==
  [][\A id \in (DOMAIN invoices) \cap (DOMAIN invoices') :
       invoices[id].paidDate # NoDate
       => invoices'[id].paidDate = invoices[id].paidDate]_vars

\* C4 as amended: a PUT /invoices/:id on a paid invoice whose body is only a
\* status change away from paid is rejected with 400 and leaves the stored
\* invoices as they were.
C4_StatusOnlyChangeRejected ==
  [][\A u \in Users, id \in DOMAIN invoices, s \in InvoiceStatus \ {"paid"} :
       ( /\ FindOwned(invoices, id, u)
         /\ invoices[id].status = "paid"
         /\ UpdateInvoice(u, id, [status |-> s]) )
       => /\ last'.code = 400
          /\ invoices' = invoices]_vars

\* C4 witness: the last request was a PUT of {status: 'draft'} on a paid
\* invoice of the caller, and it was answered 400.
C4_Witness ==
  /\ last.op = "PUT /invoices/:id"
  /\ last.body = [status |-> "draft"]
  /\ last.code = 400
  /\ FindOwned(invoices, last.id, last.user)
  /\ invoices[last.id].status = "paid"

\* C4 as stated: a PUT /invoices/:id on a paid invoice whose body is only a
\* status change away from paid is accepted and applied.
C4_StatusOnlyChangeAccepted ==
  [][\A u \in Users, id \in DOMAIN invoices, s \in InvoiceStatus \ {"paid"} :
       ( /\ FindOwned(invoices, id, u)
         /\ invoices[id].status = "paid"
         /\ UpdateInvoice(u, id, [status |-> s]) )
       => /\ last'.code = 200
          /\ invoices'[id].status = s]_vars

\* the years the clock can show
Years == {getFullYear(t) : t \in 1..(1 + MaxSteps * TicksPerYear)}

\* the numbers issued to user u in year y, in the order of issue
IssuedTo(u, y) ==
  LET Mine(e) == e.user = u /\ e.year = y
  IN SelectSeq(issued, Mine)

\* C5: the k-th invoice a user creates in a calendar year gets the number
\* INV-<year>-<k padded to 4 digits>: numbers start at 0001, go up by exactly 1
\* and are never issued twice, whatever updates and deletes come in between.
C5_NumbersIncreaseByOne ==
  \A u \in Users, y \in Years :
     \A k \in 1..Len(IssuedTo(u, y)) :
        IssuedTo(u, y)[k].invoiceNumber = FormatInvoiceNumber(y, k)

\* a POST /invoices body that passes validation: every item carries its amount
ValidCreateBody(body) ==
  \A i \in 1..Len(body.items) : Has(body.items[i], "amount")

\* C6: a user's first invoice creation in a year succeeds and is stored with
\* the number INV-<year>-0001, whatever invoices other users hold.
C6_FirstNumberPerUser ==
  [][\A u \in Users, body \in CreateBodies :
       ( /\ FindOwned(clients, body.client, u)
         /\ ValidCreateBody(body)
         /\ \A id \in DOMAIN invoices : invoices[id].user # u
         /\ IssuedTo(u, getFullYear(now)) = <<>>
         /\ CreateInvoice(u, body) )
       => /\ last'.code = 201
          /\ last'.id \in DOMAIN invoices'
          /\ invoices'[last'.id].invoiceNumber
               = FormatInvoiceNumber(getFullYear(now), 1)]_vars

\* C12: DELETE /invoices/:id on a paid invoice of the caller is rejected with
\* 400 and the stored invoices stay as they were; on a non-paid invoice of the
\* caller it answers 200 and removes exactly that invoice.
C12_PaidInvoiceUndeletable ==
  [][\A u \in Users, id \in DOMAIN invoices :
       ( FindOwned(invoices, id, u) /\ DeleteInvoice(u, id) )
       => IF invoices[id].status = "paid"
          THEN last'.code = 400 /\ invoices' = invoices
          ELSE /\ last'.code = 200
               /\ DOMAIN invoices' = (DOMAIN invoices) \ {id}
               /\ \A k \in DOMAIN invoices' : invoices'[k] = invoices[k]]_vars

\* C12 witness: the last request was a DELETE of a paid invoice of the caller,
\* it was answered 400 and the invoice is still stored.
C12_Witness ==
  /\ last.op = "DELETE /invoices/:id"
  /\ last.code = 400
  /\ FindOwned(invoices, last.id, last.user)
  /\ invoices[last.id].status = "paid"

\* C15: send on a non-paid invoice of the caller (draft, sent, viewed, overdue
\* or cancelled) is accepted, sets status = sent and appends exactly one
\* emailHistory entry {sentTo = client email, subject from the invoice number,
\* status = sent}; on a paid invoice it is rejected and nothing changes.
C15_SendAllowedUnlessPaid ==
  [][\A u \in Users, id \in DOMAIN invoices :
       ( FindOwned(invoices, id, u) /\ SendInvoice(u, id) )
       => IF invoices[id].status = "paid"
          THEN last'.code = 400 /\ invoices' = invoices
          ELSE /\ last'.code = 200
               /\ invoices'[id].status = "sent"
               /\ Len(invoices'[id].emailHistory) = Len(invoices[id].emailHistory) + 1
               /\ SubSeq(invoices'[id].emailHistory, 1, Len(invoices[id].emailHistory))
                    = invoices[id].emailHistory
               /\ LET entry == invoices'[id].emailHistory[Len(invoices'[id].emailHistory)]
                  IN /\ entry.status = "sent"
                     /\ entry.subject = InvoiceSpace \o invoices[id].invoiceNumber
                     /\ entry.sentTo = clients[invoices[id].client].email]_vars

\* C16: mark-paid on an invoice of the caller, whatever its status, answers 200
\* and leaves it with status = paid and paidDate = the time of the call.
C16_MarkPaidUnconditional ==
  [][\A u \in Users, id \in DOMAIN invoices :
       ( FindOwned(invoices, id, u) /\ MarkPaid(u, id) )
       => /\ last'.code = 200
          /\ invoices'[id].status = "paid"
          /\ invoices'[id].paidDate = now]_vars

\* C16 witness: the last request was an accepted mark-paid, made after the
\* clock had advanced, and the invoice is paid with paidDate = the time of the
\* call although it had been sent before.
C16_Witness ==
  /\ last.op = "PUT /invoices/:id/mark-paid"
  /\ last.code = 200
  /\ now > 1
  /\ FindOwned(invoices, last.id, last.user)
  /\ invoices[last.id].status = "paid"
  /\ invoices[last.id].paidDate = now
  /\ invoices[last.id].emailHistory # <<>>

\* a is a prefix of b
IsPrefix(a, b) == Len(a) <= Len(b) /\ SubSeq(b, 1, Len(a)) = a

\* C19: an invoice's emailHistory is append-only: across every operation the
\* earlier value is a prefix of the later one.
C19_EmailHistoryAppendOnly ==
  [][\A id \in (DOMAIN invoices) \cap (DOMAIN invoices') :
       IsPrefix(invoices[id].emailHistory, invoices'[id].emailHistory)]_vars

\* C26: POST /invoices for a client of the caller, with items that carry
\* quantity and rate but no amount and with no subtotal or total, answers 201
\* and stores a draft invoice whose amounts and totals the server computed.
C26_CreateWithoutAmounts ==
  [][\A u \in Users, body \in CreateBodies :
       ( /\ FindOwned(clients, body.client, u)
         /\ ~Has(body, "subtotal") /\ ~Has(body, "total")
         /\ \A i \in 1..Len(body.items) : ~Has(body.items[i], "amount")
         /\ CreateInvoice(u, body) )
       => /\ last'.code = 201
          /\ last'.id \in DOMAIN invoices'
          /\ invoices'[last'.id].status = "draft"
          /\ TotalsConsistent(invoices'[last'.id])]_vars

\* C30: in every reachable state every stored project and every stored invoice
\* references a client that is still stored.
C30_ClientsStillExist ==
  /\ \A i \in DOMAIN invoices : invoices[i].client \in DOMAIN clients
  /\ \A p \in DOMAIN projects : projects[p].client \in DOMAIN clients

\* ------------------------------------------------------------------ interleaved creation
\* POST /api/invoices up to the await of generateInvoiceNumber: the ownership
\* check and the read of the last invoice number
BeginCreateInvoice(u, body) ==
  /\ IF ~FindOwned(clients, body.client, u)
     THEN /\ Respond("POST /invoices", u, 0, body, 400)
          /\ UNCHANGED requests
     ELSE /\ requests' = Append(requests,
                [user |-> u, body |-> body, code |-> 0,
                 invoiceNumber |-> generateInvoiceNumber(invoices, u, now)])
          /\ UNCHANGED last
  /\ UNCHANGED <<now, clients, projects, tasks, invoices, nextId, issued>>

\* POST /api/invoices from `new Invoice(invoiceData)` on: the save and the response
FinishCreateInvoice(r) ==
  /\ requests[r].code = 0
  /\ CreateInvoiceSave(requests[r].user, requests[r].body, requests[r].invoiceNumber)
  /\ requests' = [requests EXCEPT ![r].code = last'.code]
  /\ UNCHANGED <<now, clients, projects, tasks>>

\* requests interleave at POST /api/invoices' await points
NextRace ==
  \/ \E d \in {1, TicksPerYear} : Step /\ Tick(d)
  \/ \E u \in Users : Step /\ CreateClient(u)
  \/ \E u \in Users, id \in ClientIds : Step /\ DeleteClient(u, id)
  \/ \E u \in Users, body \in CreateBodies : Step /\ BeginCreateInvoice(u, body)
  \/ \E r \in DOMAIN requests : Step /\ FinishCreateInvoice(r)
  \/ \E u \in Users, id \in InvoiceIds, body \in UpdateBodies :
        Step /\ UpdateInvoice(u, id, body)
  \/ \E u \in Users, id \in InvoiceIds : Step /\ SendInvoice(u, id)
  \/ \E u \in Users, id \in InvoiceIds : Step /\ MarkPaid(u, id)
  \/ \E u \in Users, id \in InvoiceIds : Step /\ DeleteInvoice(u, id)

SpecRace == Init /\ [][NextRace]_vars

\* no two stored invoices carry the same number
NumbersUnique ==
  \A a, b \in DOMAIN invoices :
     a # b => invoices[a].invoiceNumber # invoices[b].invoiceNumber

\* C7: two creations of one user that both read the last invoice number before
\* either saves hold the same number; the number is stored at most once, and the
\* creation that saves while the other's invoice holds the number fails with the
\* generic 500 and stores nothing.
C7_RacingCreationFails ==
  /\ []NumbersUnique
  /\ [][\A r \in DOMAIN requests :
          ( /\ FinishCreateInvoice(r)
            /\ \E id \in DOMAIN invoices :
                  invoices[id].invoiceNumber = requests[r].invoiceNumber )
          => /\ requests'[r].code = 500
             /\ last'.code = 500
             /\ invoices' = invoices]_vars

\* C7 witness: two creations of one user computed the same number; one was
\* stored (201), the other ended with 500, and the number is stored once.
C7_Witness ==
  \E a, b \in DOMAIN requests :
     /\ a # b
     /\ requests[a].user = requests[b].user
     /\ requests[a].invoiceNumber = requests[b].invoiceNumber
     /\ ValidCreateBody(requests[a].body) /\ ValidCreateBody(requests[b].body)
     /\ requests[a].code = 201
     /\ requests[b].code = 500
     /\ Cardinality({id \in DOMAIN invoices :
           invoices[id].invoiceNumber = requests[a].invoiceNumber}) = 1

\* ------------------------------------------------------------------ project model
ProjectStatus == {"planning", "active", "on-hold", "completed", "cancelled"}

\* the schema defaults of a Project document
ProjectDefaults ==
  [status |-> "planning", completedDate |-> NoDate, progress |-> 0, isArchived |-> FALSE]

\* the schema validators of the paths a Project write carries
ValidateProject(doc) ==
  /\ Has(doc, "status") => doc.status \in ProjectStatus
  /\ Has(doc, "progress") => (doc.progress >= 0 /\ doc.progress <= 100)

\* projectSchema.pre('save')
PreSaveProject(doc, isNew, statusModified, t) ==
  IF isNew \/ statusModified
  THEN IF doc.status = "completed" /\ doc.completedDate = NoDate
       THEN ObjectAssign(doc, [completedDate |-> t, progress |-> 100])
       ELSE IF doc.status # "completed" /\ doc.completedDate # NoDate
       THEN ObjectAssign(doc, [completedDate |-> NoDate])
       ELSE doc
  ELSE doc

\* POST /api/projects
CreateProject(u, body) ==
  /\ IF ~FindOwned(clients, body.client, u)
     THEN /\ Respond("POST /projects", u, 0, body, 400)
          /\ UNCHANGED <<projects, nextId>>
     ELSE LET doc == ObjectAssign(ObjectAssign(ProjectDefaults, body),
                                  [_id |-> nextId.project, user |-> u])
          IN IF ValidateProject(doc)
             THEN /\ projects' = projects @@
                       (nextId.project :> PreSaveProject(doc, TRUE, Has(body, "status"), now))
                  /\ nextId' = [nextId EXCEPT !.project = @ + 1]
                  /\ Respond("POST /projects", u, nextId.project, body, 201)
             ELSE /\ Respond("POST /projects", u, 0, body, 500)
                  /\ UNCHANGED <<projects, nextId>>
  /\ UNCHANGED <<now, clients, tasks, invoices, issued, requests>>

\* PUT /api/projects/:id: findOneAndUpdate with runValidators, no save hook
UpdateProject(u, id, body) ==
  /\ IF ~ValidateProject(body)
     THEN /\ Respond("PUT /projects/:id", u, id, body, 500)
          /\ UNCHANGED projects
     ELSE IF ~FindOwned(projects, id, u)
     THEN /\ Respond("PUT /projects/:id", u, id, body, 404)
          /\ UNCHANGED projects
     ELSE /\ projects' = [projects EXCEPT ![id] = ObjectAssign(@, body)]
          /\ Respond("PUT /projects/:id", u, id, body, 200)
  /\ UNCHANGED <<now, clients, tasks, invoices, nextId, issued, requests>>

\* Task.countDocuments({project, user})
taskCount(u, id) ==
  Cardinality({t \in DOMAIN tasks : tasks[t].project = id /\ tasks[t].user = u})

\* DELETE /api/projects/:id: the task count comes before the lookup
DeleteProject(u, id) ==
  /\ IF taskCount(u, id) > 0
     THEN /\ Respond("DELETE /projects/:id", u, id, <<>>, 400)
          /\ UNCHANGED projects
     ELSE IF ~FindOwned(projects, id, u)
     THEN /\ Respond("DELETE /projects/:id", u, id, <<>>, 404)
          /\ UNCHANGED projects
     ELSE /\ projects' = Remove(projects, id)
          /\ Respond("DELETE /projects/:id", u, id, <<>>, 200)
  /\ UNCHANGED <<now, clients, tasks, invoices, nextId, issued, requests>>

\* PUT /api/projects/:id/archive: findOneAndUpdate of {isArchived: Boolean(isArchived)}
ArchiveProject(u, id, body) ==
  /\ IF ~FindOwned(projects, id, u)
     THEN /\ Respond("PUT /projects/:id/archive", u, id, body, 404)
          /\ UNCHANGED projects
     ELSE /\ projects' = [projects EXCEPT
                            ![id] = ObjectAssign(@, [isArchived |-> body.isArchived])]
          /\ Respond("PUT /projects/:id/archive", u, id, body, 200)
  /\ UNCHANGED <<now, clients, tasks, invoices, nextId, issued, requests>>

\* ------------------------------------------------------------------ task model
TaskStatus == {"todo", "in-progress", "review", "completed", "cancelled"}

\* the schema defaults of a Task document
TaskDefaults ==
  [status |-> "todo", completedDate |-> NoDate, progress |-> 0, checklist |-> <<>>,
   comments |-> <<>>, isArchived |-> FALSE]

\* a checklist item as the schema casts it: completed defaults to false,
\* completedAt stays unset unless given
CastChecklistItem(item) ==
  [item |-> item.item,
   completed |-> IF Has(item, "completed") THEN item.completed ELSE FALSE,
   completedAt |-> IF Has(item, "completedAt") THEN item.completedAt ELSE NoDate]

CastChecklist(checklist) ==
  [i \in 1..Len(checklist) |-> CastChecklistItem(checklist[i])]

\* the schema validators of the paths a Task write carries
ValidateTask(doc) ==
  /\ Has(doc, "status") => doc.status \in TaskStatus
  /\ Has(doc, "progress") => (doc.progress >= 0 /\ doc.progress <= 100)
  /\ Has(doc, "checklist") =>
        \A i \in 1..Len(doc.checklist) : Has(doc.checklist[i], "item")

\* taskSchema.pre('save'), the checklist part
StampChecklist(checklist, t) ==
  [i \in 1..Len(checklist) |->
     IF checklist[i].completed /\ checklist[i].completedAt = NoDate
     THEN ObjectAssign(checklist[i], [completedAt |-> t])
     ELSE IF ~checklist[i].completed /\ checklist[i].completedAt # NoDate
     THEN ObjectAssign(checklist[i], [completedAt |-> NoDate])
     ELSE checklist[i]]

\* taskSchema.pre('save')
PreSaveTask(doc, statusModified, checklistModified, t) ==
  LET d1 == IF statusModified
            THEN IF doc.status = "completed" /\ doc.completedDate = NoDate
                 THEN ObjectAssign(doc, [completedDate |-> t, progress |-> 100])
                 ELSE IF doc.status # "completed" /\ doc.completedDate # NoDate
                 THEN ObjectAssign(doc, [completedDate |-> NoDate])
                 ELSE doc
            ELSE doc
  IN IF checklistModified
     THEN ObjectAssign(d1, [checklist |-> StampChecklist(d1.checklist, t)])
     ELSE d1

\* the body of a Task write with its checklist cast to the schema
CastTaskBody(body) ==
  IF Has(body, "checklist")
  THEN ObjectAssign(body, [checklist |-> CastChecklist(body.checklist)])
  ELSE body

\* POST /api/tasks
CreateTask(u, body) ==
  /\ IF ~FindOwned(projects, body.project, u)
     THEN /\ Respond("POST /tasks", u, 0, body, 400)
          /\ UNCHANGED <<tasks, nextId>>
     ELSE LET doc == ObjectAssign(ObjectAssign(TaskDefaults, CastTaskBody(body)),
                                  [_id |-> nextId.task, user |-> u])
          IN IF ValidateTask(body)
             THEN /\ tasks' = tasks @@
                       (nextId.task :> PreSaveTask(doc, Has(body, "status"),
                                                   Has(body, "checklist"), now))
                  /\ nextId' = [nextId EXCEPT !.task = @ + 1]
                  /\ Respond("POST /tasks", u, nextId.task, body, 201)
             ELSE /\ Respond("POST /tasks", u, 0, body, 500)
                  /\ UNCHANGED <<tasks, nextId>>
  /\ UNCHANGED <<now, clients, projects, invoices, issued, requests>>

\* PUT /api/tasks/:id: findOneAndUpdate with runValidators, no save hook
UpdateTask(u, id, body) ==
  /\ IF ~ValidateTask(body)
     THEN /\ Respond("PUT /tasks/:id", u, id, body, 500)
          /\ UNCHANGED tasks
     ELSE IF ~FindOwned(tasks, id, u)
     THEN /\ Respond("PUT /tasks/:id", u, id, body, 404)
          /\ UNCHANGED tasks
     ELSE /\ tasks' = [tasks EXCEPT ![id] = ObjectAssign(@, CastTaskBody(body))]
          /\ Respond("PUT /tasks/:id", u, id, body, 200)
  /\ UNCHANGED <<now, clients, projects, invoices, nextId, issued, requests>>

\* PUT /api/tasks/:id/checklist: findOneAndUpdate of the checklist alone,
\* with runValidators and no save hook
UpdateChecklist(u, id, body) ==
  /\ IF ~ValidateTask(body)
     THEN /\ Respond("PUT /tasks/:id/checklist", u, id, body, 500)
          /\ UNCHANGED tasks
     ELSE IF ~FindOwned(tasks, id, u)
     THEN /\ Respond("PUT /tasks/:id/checklist", u, id, body, 404)
          /\ UNCHANGED tasks
     ELSE /\ tasks' = [tasks EXCEPT
                         ![id] = ObjectAssign(@, [checklist |-> CastChecklist(body.checklist)])]
          /\ Respond("PUT /tasks/:id/checklist", u, id, body, 200)
  /\ UNCHANGED <<now, clients, projects, invoices, nextId, issued, requests>>

\* POST /api/tasks/:id/comments: push the comment and save(); the hook finds
\* neither status nor checklist modified
AddComment(u, id, body) ==
  /\ IF ~FindOwned(tasks, id, u)
     THEN /\ Respond("POST /tasks/:id/comments", u, id, body, 404)
          /\ UNCHANGED tasks
     ELSE LET comment == [text |-> body.text, author |-> u, createdAt |-> now]
              doc == ObjectAssign(tasks[id],
                        [comments |-> Append(tasks[id].comments, comment)])
          IN /\ tasks' = [tasks EXCEPT ![id] = PreSaveTask(doc, FALSE, FALSE, now)]
             /\ Respond("POST /tasks/:id/comments", u, id, body, 201)
  /\ UNCHANGED <<now, clients, projects, invoices, nextId, issued, requests>>

\* DELETE /api/tasks/:id
DeleteTask(u, id) ==
  /\ IF ~FindOwned(tasks, id, u)
     THEN /\ Respond("DELETE /tasks/:id", u, id, <<>>, 404)
          /\ UNCHANGED tasks
     ELSE /\ tasks' = Remove(tasks, id)
          /\ Respond("DELETE /tasks/:id", u, id, <<>>, 200)
  /\ UNCHANGED <<now, clients, projects, invoices, nextId, issued, requests>>

\* ------------------------------------------------------------------ project and task requests
ProjectIds == 1..nextId.project
TaskIds == 1..nextId.task

\* bodies of POST /api/projects
ProjectCreateBodies ==
  {[client |-> c] : c \in ClientIds}
  \cup {[client |-> c, status |-> "completed", progress |-> 50] : c \in ClientIds}

\* bodies of PUT /api/projects/:id
ProjectUpdateBodies ==
  {[status |-> "completed"], [status |-> "active"], [progress |-> 50], [user |-> "u2"]}
  \cup {[client |-> c] : c \in ClientIds}

\* bodies of PUT /api/clients/:id
ClientUpdateBodies == {[email |-> "new@example.com"], [user |-> "u2"]}

\* bodies of PUT /api/projects/:id/archive
ArchiveBodies == {[isArchived |-> TRUE], [isArchived |-> FALSE]}

\* bodies of POST /api/tasks/:id/comments
CommentBodies == {[text |-> "looks good"]}

\* checklists as a request carries them
ChecklistDone == <<[item |-> "draft", completed |-> TRUE]>>
ChecklistUndone == <<[item |-> "draft", completed |-> FALSE]>>
ChecklistUndoneStamped == <<[item |-> "draft", completed |-> FALSE, completedAt |-> 1]>>

\* bodies of POST /api/tasks
TaskCreateBodies ==
  {[project |-> p] : p \in ProjectIds}
  \cup {[project |-> p, status |-> "completed"] : p \in ProjectIds}
  \cup {[project |-> p, checklist |-> ChecklistDone] : p \in ProjectIds}

\* bodies of PUT /api/tasks/:id
TaskUpdateBodies ==
  {[status |-> "completed"], [status |-> "todo"], [user |-> "u2"]}
  \cup {[project |-> p] : p \in ProjectIds}

\* bodies of PUT /api/tasks/:id/checklist
ChecklistBodies ==
  {[checklist |-> c] : c \in {ChecklistDone, ChecklistUndone, ChecklistUndoneStamped}}

\* the project and task write paths, one request at a time
NextWork ==
  \/ \E d \in {1, TicksPerYear} : Step /\ Tick(d)
  \/ \E u \in Users : Step /\ CreateClient(u)
  \/ \E u \in Users, id \in ClientIds, body \in ClientUpdateBodies :
        Step /\ UpdateClient(u, id, body)
  \/ \E u \in Users, id \in ClientIds : Step /\ DeleteClient(u, id)
  \/ \E u \in Users, body \in ProjectCreateBodies : Step /\ CreateProject(u, body)
  \/ \E u \in Users, id \in ProjectIds, body \in ProjectUpdateBodies :
        Step /\ UpdateProject(u, id, body)
  \/ \E u \in Users, body \in TaskCreateBodies : Step /\ CreateTask(u, body)
  \/ \E u \in Users, id \in TaskIds, body \in TaskUpdateBodies :
        Step /\ UpdateTask(u, id, body)
  \/ \E u \in Users, id \in TaskIds, body \in ChecklistBodies :
        Step /\ UpdateChecklist(u, id, body)
  \/ \E u \in Users, id \in ProjectIds : Step /\ DeleteProject(u, id)
  \/ \E u \in Users, id \in ProjectIds, body \in ArchiveBodies :
        Step /\ ArchiveProject(u, id, body)
  \/ \E u \in Users, id \in TaskIds, body \in CommentBodies :
        Step /\ AddComment(u, id, body)
  \/ \E u \in Users, id \in TaskIds : Step /\ DeleteTask(u, id)

SpecWork == Init /\ [][NextWork]_vars

\* ------------------------------------------------------------------ project and task claims
CompletedDateMirrorsStatus(doc) ==
  (doc.completedDate # NoDate) <=> (doc.status = "completed")

\* C8: after any create or update of a Project or a Task, completedDate is set
\* if and only if status = completed.
C8_CompletedDateIffCompleted ==
  /\ \A id \in DOMAIN projects : CompletedDateMirrorsStatus(projects[id])
  /\ \A id \in DOMAIN tasks : CompletedDateMirrorsStatus(tasks[id])

\* C9: whenever a Project's status becomes completed, at creation or through
\* PUT /projects/:id, its progress is 100 afterwards.
C9_CompletionForcesProgress ==
  [][\A id \in DOMAIN projects' :
       ( /\ projects'[id].status = "completed"
         /\ (id \in DOMAIN projects => projects[id].status # "completed") )
       => projects'[id].progress = 100]_vars

\* C10: after an accepted PUT /tasks/:id/checklist, every checklist item has
\* completedAt set exactly when its completed flag is true.
C10_ChecklistStampsMirrorFlags ==
  [][\A u \in Users, id \in DOMAIN tasks, body \in ChecklistBodies :
       ( UpdateChecklist(u, id, body) /\ last'.code = 200 )
       => \A i \in 1..Len(tasks'[id].checklist) :
             (tasks'[id].checklist[i].completedAt # NoDate)
                <=> tasks'[id].checklist[i].completed]_vars

\* C11: an accepted checklist update that again sets completed = true for an
\* item that already has completedAt leaves that completedAt as it was, and one
\* that sets completed = false leaves the item without completedAt (items are
\* matched by their position in the checklist).
C11_ChecklistToggleIdempotent ==
  [][\A u \in Users, id \in DOMAIN tasks, body \in ChecklistBodies :
       ( UpdateChecklist(u, id, body) /\ last'.code = 200 )
       => \A i \in 1..Len(body.checklist) :
             LET sent == CastChecklistItem(body.checklist[i])
             IN /\ ( /\ sent.completed
                     /\ i <= Len(tasks[id].checklist)
                     /\ tasks[id].checklist[i].completedAt # NoDate )
                   => tasks'[id].checklist[i].completedAt
                        = tasks[id].checklist[i].completedAt
                /\ ~sent.completed
                   => tasks'[id].checklist[i].completedAt = NoDate]_vars

\* the statuses that block the deletion of a project's client
ActiveProjectStatus == {"planning", "active", "on-hold"}

\* C13: DELETE /clients/:id is rejected with 400, leaving the clients as they
\* were, whenever the caller has a project of that client with status planning,
\* active or on-hold; it succeeds only when the caller has no such project, and
\* then the client is gone.
C13_ClientWithActiveProjectKept ==
  [][\A u \in Users, id \in ClientIds :
       DeleteClient(u, id)
       => LET blocked == \E p \in DOMAIN projects :
                            /\ projects[p].user = u
                            /\ projects[p].client = id
                            /\ projects[p].status \in ActiveProjectStatus
          IN /\ blocked => (last'.code = 400 /\ clients' = clients)
             /\ last'.code = 200 => (~blocked /\ id \notin DOMAIN clients')]_vars

\* C13 witness: the last request was a DELETE of a client of the caller that
\* has a planning, active or on-hold project; it was answered 400 and the
\* client is still stored.
C13_Witness ==
  /\ last.op = "DELETE /clients/:id"
  /\ last.code = 400
  /\ FindOwned(clients, last.id, last.user)
  /\ \E p \in DOMAIN projects :
        /\ projects[p].user = last.user
        /\ projects[p].client = last.id
        /\ projects[p].status \in ActiveProjectStatus

\* C14: DELETE /projects/:id leaves the project stored whenever at least one
\* task references it, and succeeds only when no task does.
C14_ProjectWithTaskKept ==
  [][\A u \in Users, id \in DOMAIN projects :
       ( /\ DeleteProject(u, id)
         /\ \E t \in DOMAIN tasks : tasks[t].project = id )
       => /\ last'.code # 200
          /\ projects' = projects]_vars

\* C17: every invoice's client and project, every project's client and every
\* task's project that is stored is owned by the user who owns the record.
C17_LinksWithinOwner ==
  /\ \A i \in DOMAIN invoices :
        /\ invoices[i].client \in DOMAIN clients
              => clients[invoices[i].client].user = invoices[i].user
        /\ (Has(invoices[i], "project") /\ invoices[i].project \in DOMAIN projects)
              => projects[invoices[i].project].user = invoices[i].user
  /\ \A p \in DOMAIN projects :
        projects[p].client \in DOMAIN clients
           => clients[projects[p].client].user = projects[p].user
  /\ \A t \in DOMAIN tasks :
        tasks[t].project \in DOMAIN projects
           => projects[tasks[t].project].user = tasks[t].user

\* the owner of every record of coll that stays stored is the same afterwards
OwnersKept(coll, collAfter) ==
  \A id \in (DOMAIN coll) \cap (DOMAIN collAfter) : collAfter[id].user = coll[id].user

\* C18: no operation changes the owning user of a stored client, project, task
\* or invoice.
C18_OwnershipImmutable ==
  [][/\ OwnersKept(clients, clients')
     /\ OwnersKept(projects, projects')
     /\ OwnersKept(tasks, tasks')
     /\ OwnersKept(invoices, invoices')]_vars

\* the operations addressed by the id of a client, project, task, invoice
ClientOps == {"PUT /clients/:id", "DELETE /clients/:id"}
ProjectOps == {"PUT /projects/:id", "DELETE /projects/:id", "PUT /projects/:id/archive"}
TaskOps == {"PUT /tasks/:id", "PUT /tasks/:id/checklist", "POST /tasks/:id/comments",
            "DELETE /tasks/:id"}
InvoiceOps == {"PUT /invoices/:id", "POST /invoices/:id/send",
               "PUT /invoices/:id/mark-paid", "DELETE /invoices/:id"}

OwnedByAnother(coll, id, u) == id \in DOMAIN coll /\ coll[id].user # u

\* request r addresses a record that a user other than the caller owns
ForeignRequest(r) ==
  \/ r.op \in ClientOps /\ OwnedByAnother(clients, r.id, r.user)
  \/ r.op \in ProjectOps /\ OwnedByAnother(projects, r.id, r.user)
  \/ r.op \in TaskOps /\ OwnedByAnother(tasks, r.id, r.user)
  \/ r.op \in InvoiceOps /\ OwnedByAnother(invoices, r.id, r.user)

\* C20: a request addressed to the id of a record that another user owns is
\* answered 404 and leaves every stored record as it was.
C20_ForeignIdNotFound ==
  [][( steps' # steps /\ now' = now /\ ForeignRequest(last') )
       => /\ last'.code = 404
          /\ UNCHANGED <<clients, projects, tasks, invoices>>]_vars

\* ------------------------------------------------------------------ interleaved paid lock
\* the paths save() sends: those whose value differs from the loaded document
DirtyPaths(loaded, doc) ==
  {f \in DOMAIN doc : f \notin DOMAIN loaded \/ doc[f] # loaded[f]}

\* updateOne({_id}, {$set: dirty paths}) on the stored document
WriteDirty(stored, loaded, doc) ==
  [f \in (DOMAIN stored) \cup DirtyPaths(loaded, doc) |->
     IF f \in DirtyPaths(loaded, doc) THEN doc[f] ELSE stored[f]]

\* PUT /api/invoices/:id up to the return of findOne: the lookup and the guard
BeginUpdateInvoice(u, id, body) ==
  /\ IF ~FindOwned(invoices, id, u)
     THEN /\ Respond("PUT /invoices/:id", u, id, body, 404)
          /\ UNCHANGED requests
     ELSE IF PaidLocked(invoices[id], body)
     THEN /\ Respond("PUT /invoices/:id", u, id, body, 400)
          /\ UNCHANGED requests
     ELSE /\ requests' = Append(requests,
                [op |-> "PUT /invoices/:id", user |-> u, id |-> id, body |-> body,
                 invoice |-> invoices[id], code |-> 0])
          /\ UNCHANGED last
  /\ UNCHANGED <<now, clients, projects, tasks, invoices, nextId, issued>>

\* PUT /api/invoices/:id from Object.assign on: save() validates, runs the hook
\* on the loaded document and writes its dirty paths; it throws when the
\* document is no longer stored
FinishUpdateInvoice(r) ==
  /\ requests[r].op = "PUT /invoices/:id"
  /\ requests[r].code = 0
  /\ LET q == requests[r]
         doc == ObjectAssign(q.invoice, q.body)
         statusModified == Has(q.body, "status") /\ q.body.status # q.invoice.status
         saved == PreSaveInvoice(doc, statusModified, now)
     IN IF ~ValidateInvoice(doc)
        THEN /\ Respond(q.op, q.user, q.id, q.body, 500)
             /\ UNCHANGED invoices
        ELSE IF DirtyPaths(q.invoice, saved) = {}
        THEN /\ Respond(q.op, q.user, q.id, q.body, 200)
             /\ UNCHANGED invoices
        ELSE IF q.id \notin DOMAIN invoices
        THEN /\ Respond(q.op, q.user, q.id, q.body, 500)
             /\ UNCHANGED invoices
        ELSE /\ invoices' = [invoices EXCEPT ![q.id] = WriteDirty(@, q.invoice, saved)]
             /\ Respond(q.op, q.user, q.id, q.body, 200)
  /\ requests' = [requests EXCEPT ![r].code = last'.code]
  /\ UNCHANGED <<now, clients, projects, tasks, nextId, issued>>

\* DELETE /api/invoices/:id up to the return of findOne: the lookup and the guard
BeginDeleteInvoice(u, id) ==
  /\ IF ~FindOwned(invoices, id, u)
     THEN /\ Respond("DELETE /invoices/:id", u, id, <<>>, 404)
          /\ UNCHANGED requests
     ELSE IF invoices[id].status = "paid"
     THEN /\ Respond("DELETE /invoices/:id", u, id, <<>>, 400)
          /\ UNCHANGED requests
     ELSE /\ requests' = Append(requests,
                [op |-> "DELETE /invoices/:id", user |-> u, id |-> id, body |-> <<>>,
                 invoice |-> invoices[id], code |-> 0])
          /\ UNCHANGED last
  /\ UNCHANGED <<now, clients, projects, tasks, invoices, nextId, issued>>

\* DELETE /api/invoices/:id from findByIdAndDelete on
FinishDeleteInvoice(r) ==
  /\ requests[r].op = "DELETE /invoices/:id"
  /\ requests[r].code = 0
  /\ invoices' = Remove(invoices, requests[r].id)
  /\ Respond(requests[r].op, requests[r].user, requests[r].id, <<>>, 200)
  /\ requests' = [requests EXCEPT ![r].code = 200]
  /\ UNCHANGED <<now, clients, projects, tasks, nextId, issued>>

\* bodies of PUT /api/invoices/:id that the guard refuses on a paid invoice
LockedBodies == {[notes |-> "edited"], [status |-> "sent"]}

\* PUT and DELETE of an invoice interleave with mark-paid at their await points
NextLock ==
  \/ \E u \in Users : Step /\ CreateClient(u)
  \/ \E u \in Users, body \in CreateBodies : Step /\ CreateInvoice(u, body)
  \/ \E u \in Users, id \in InvoiceIds : Step /\ MarkPaid(u, id)
  \/ \E u \in Users, id \in InvoiceIds, body \in LockedBodies :
        Step /\ BeginUpdateInvoice(u, id, body)
  \/ \E r \in DOMAIN requests : Step /\ FinishUpdateInvoice(r)
  \/ \E u \in Users, id \in InvoiceIds : Step /\ BeginDeleteInvoice(u, id)
  \/ \E r \in DOMAIN requests : Step /\ FinishDeleteInvoice(r)

SpecLock == Init /\ [][NextLock]_vars

\* C27: a PUT or DELETE of an invoice that runs concurrently with a mark-paid
\* never modifies, moves out of paid or deletes the invoice once it is paid:
\* the write of such a request leaves a paid invoice as it is.
C27_PaidLockUnderInterleaving ==
  [][\A r \in DOMAIN requests :
       ( /\ FinishUpdateInvoice(r) \/ FinishDeleteInvoice(r)
         /\ requests[r].id \in DOMAIN invoices
         /\ invoices[requests[r].id].status = "paid" )
       => invoices' = invoices]_vars

\* ------------------------------------------------------------------ interleaved task creation
\* POST /api/tasks up to the return of Project.findOne: the project check
BeginCreateTask(u, body) ==
  /\ IF ~FindOwned(projects, body.project, u)
     THEN /\ Respond("POST /tasks", u, 0, body, 400)
          /\ UNCHANGED requests
     ELSE /\ requests' = Append(requests,
                [op |-> "POST /tasks", user |-> u, id |-> 0, body |-> body, code |-> 0])
          /\ UNCHANGED last
  /\ UNCHANGED <<now, clients, projects, tasks, invoices, nextId, issued>>

\* POST /api/tasks from `new Task(taskData)` on: the save and the response
FinishCreateTask(r) ==
  /\ requests[r].op = "POST /tasks"
  /\ requests[r].code = 0
  /\ LET q == requests[r]
         doc == ObjectAssign(ObjectAssign(TaskDefaults, CastTaskBody(q.body)),
                             [_id |-> nextId.task, user |-> q.user])
     IN IF ValidateTask(q.body)
        THEN /\ tasks' = tasks @@
                  (nextId.task :> PreSaveTask(doc, Has(q.body, "status"),
                                              Has(q.body, "checklist"), now))
             /\ nextId' = [nextId EXCEPT !.task = @ + 1]
             /\ Respond("POST /tasks", q.user, nextId.task, q.body, 201)
        ELSE /\ Respond("POST /tasks", q.user, 0, q.body, 500)
             /\ UNCHANGED <<tasks, nextId>>
  /\ requests' = [requests EXCEPT ![r].code = last'.code]
  /\ UNCHANGED <<now, clients, projects, invoices, issued>>

\* DELETE /api/projects/:id up to the return of Task.countDocuments
BeginDeleteProject(u, id) ==
  /\ IF taskCount(u, id) > 0
     THEN /\ Respond("DELETE /projects/:id", u, id, <<>>, 400)
          /\ UNCHANGED requests
     ELSE /\ requests' = Append(requests,
                [op |-> "DELETE /projects/:id", user |-> u, id |-> id, body |-> <<>>,
                 code |-> 0])
          /\ UNCHANGED last
  /\ UNCHANGED <<now, clients, projects, tasks, invoices, nextId, issued>>

\* DELETE /api/projects/:id from Project.findOneAndDelete on
FinishDeleteProject(r) ==
  /\ requests[r].op = "DELETE /projects/:id"
  /\ requests[r].code = 0
  /\ LET q == requests[r]
     IN IF ~FindOwned(projects, q.id, q.user)
        THEN /\ Respond(q.op, q.user, q.id, <<>>, 404)
             /\ UNCHANGED projects
        ELSE /\ projects' = Remove(projects, q.id)
             /\ Respond(q.op, q.user, q.id, <<>>, 200)
  /\ requests' = [requests EXCEPT ![r].code = last'.code]
  /\ UNCHANGED <<now, clients, tasks, invoices, nextId, issued>>

\* POST /api/tasks and DELETE /api/projects/:id interleave at their await
\* points, next to requests that run to completion
NextOrphan ==
  \/ \E u \in Users : Step /\ CreateClient(u)
  \/ \E u \in Users, body \in ProjectCreateBodies : Step /\ CreateProject(u, body)
  \/ \E u \in Users, body \in TaskCreateBodies : Step /\ CreateTask(u, body)
  \/ \E u \in Users, body \in TaskCreateBodies : Step /\ BeginCreateTask(u, body)
  \/ \E r \in DOMAIN requests : Step /\ FinishCreateTask(r)
  \/ \E u \in Users, id \in ProjectIds : Step /\ DeleteProject(u, id)
  \/ \E u \in Users, id \in ProjectIds : Step /\ BeginDeleteProject(u, id)
  \/ \E r \in DOMAIN requests : Step /\ FinishDeleteProject(r)

SpecOrphan == Init /\ [][NextOrphan]_vars

\* C28: no stored task references a project that is no longer stored, also
\* when DELETE /projects/:id interleaves with POST /tasks for that project.
C28_NoTaskOfDeletedProject ==
  \A t \in DOMAIN tasks : tasks[t].project \in DOMAIN projects

\* ------------------------------------------------------------------ dashboard: queries
\* the most documents of one collection a dashboard state holds
MaxDocs == 6
\* the largest limit a request asks for
MaxLimit == 6

\* .limit(5) of the recent-activity queries
RecentPerType == 5
\* parseInt(req.query.limit) || 10
DefaultLimit == 10

\* parseInt(req.query.x) || dflt, for a query value that is absent (NaN) or a number
QueryNumber(q, dflt) == IF q = NaN \/ q = 0 THEN dflt ELSE q

\* res.json(result) of a GET route
RespondWith(op, u, query, result) ==
  last' = [op |-> op, user |-> u, id |-> 0, body |-> query, code |-> 200,
           result |-> result]

\* the documents of a collection that a filter keeps
Find(coll, Keep(_)) == {coll[id] : id \in {k \in DOMAIN coll : Keep(coll[k])}}

\* Query.sort({field: sign}): the documents in the order of sign * field, equal
\* keys in the order of _id
RECURSIVE MongoSort(_, _, _)
MongoSort(docs, field, sign) ==
  IF docs = {} THEN <<>>
  ELSE LET first == CHOOSE d \in docs :
                       \A o \in docs :
                          \/ sign * d[field] < sign * o[field]
                          \/ sign * d[field] = sign * o[field] /\ d._id <= o._id
       IN <<first>> \o MongoSort(docs \ {first}, field, sign)

\* Query.limit(n) / Array.prototype.slice(0, n)
slice(seq, n) == SubSeq(seq, 1, IF n < Len(seq) THEN n ELSE Len(seq))

\* Array.prototype.sort((a, b) => sign * (a[field] - b[field])): a stable sort
RECURSIVE ArraySort(_, _, _)
ArraySort(seq, field, sign) ==
  IF Len(seq) <= 1 THEN seq
  ELSE LET front == ArraySort(SubSeq(seq, 1, Len(seq) - 1), field, sign)
           x == seq[Len(seq)]
           k == Cardinality({i \in 1..Len(front) :
                               sign * front[i][field] <= sign * x[field]})
       IN SubSeq(front, 1, k) \o <<x>> \o SubSeq(front, k + 1, Len(front))

\* ------------------------------------------------------------------ dashboard: recent activity
\* the activity entry the route builds from a document
Activity(type, doc) ==
  [type |-> type, id |-> doc._id, status |-> doc.status, updatedAt |-> doc.updatedAt]

Activities(type, docs) == [i \in 1..Len(docs) |-> Activity(type, docs[i])]

\* GET /api/dashboard/recent-activity
GetRecentActivity(u, query) ==
  LET limit == QueryNumber(query.limit, DefaultLimit)
      Mine(d) == d.user = u
      MineUnarchived(d) == d.user = u /\ ~d.isArchived
      recentProjects == slice(MongoSort(Find(projects, MineUnarchived), "updatedAt", -1),
                              RecentPerType)
      recentTasks == slice(MongoSort(Find(tasks, MineUnarchived), "updatedAt", -1),
                           RecentPerType)
      recentInvoices == slice(MongoSort(Find(invoices, Mine), "updatedAt", -1),
                              RecentPerType)
      activities == Activities("project", recentProjects)
                      \o Activities("task", recentTasks)
                      \o Activities("invoice", recentInvoices)
  IN /\ RespondWith("GET /dashboard/recent-activity", u, query,
                    slice(ArraySort(activities, "updatedAt", -1), limit))
     /\ UNCHANGED <<steps, now, clients, projects, tasks, invoices, nextId, issued,
                    requests>>

\* the clients of a dashboard state: one of each user
DashClients ==
  [k \in 1..2 |-> [_id |-> k, user |-> IF k = 1 THEN "u1" ELSE "u2",
                   email |-> ClientEmail]]

\* stores for recent-activity: up to MaxDocs projects of u1 updated one after
\* the other (in the order of their creation or against it), the first of
\* them possibly archived or another user's; up to two tasks and an invoice
\* updated before the projects or at the same instants as the first of them
InitRecent ==
  /\ steps = 0
  /\ now = MaxDocs + 3
  /\ clients = DashClients
  /\ issued = <<>>
  /\ requests = <<>>
  /\ last = [op |-> "none", user |-> "none", id |-> 0, body |-> <<>>, code |-> 0]
  /\ \E np \in 0..MaxDocs, order \in {"ascending", "descending"}, poff \in {0, 2},
        first \in {"plain", "archived", "other"}, nt \in 0..2, ni \in 0..1 :
        /\ projects =
             [k \in 1..np |->
                ObjectAssign(ProjectDefaults,
                  [_id |-> k,
                   user |-> IF k = 1 /\ first = "other" THEN "u2" ELSE "u1",
                   client |-> IF k = 1 /\ first = "other" THEN 2 ELSE 1,
                   isArchived |-> (k = 1 /\ first = "archived"),
                   updatedAt |-> poff + (IF order = "ascending" THEN k ELSE np + 1 - k)])]
        /\ tasks =
             [k \in 1..nt |->
                ObjectAssign(TaskDefaults,
                  [_id |-> k, user |-> "u1", project |-> 1, updatedAt |-> k])]
        /\ invoices =
             [k \in 1..ni |->
                ObjectAssign(InvoiceDefaults,
                  [_id |-> k, user |-> "u1", client |-> 1, items |-> <<>>,
                   invoiceNumber |-> FormatInvoiceNumber(FirstYear, k),
                   updatedAt |-> 1])]
        /\ nextId = [client |-> 3, project |-> np + 1, task |-> nt + 1,
                     invoice |-> ni + 1]

\* the limit parameter of a request: absent, or a positive number
LimitQueries == {[limit |-> q] : q \in {NaN} \cup 1..MaxLimit}

NextRecent == \E u \in Users, query \in LimitQueries : GetRecentActivity(u, query)

SpecRecent == InitRecent /\ [][NextRecent]_vars

\* the records of user u that recent-activity is about: non-archived projects,
\* non-archived tasks, invoices
EligibleActivities(u) ==
  {Activity("project", projects[p]) :
      p \in {k \in DOMAIN projects : projects[k].user = u /\ ~projects[k].isArchived}}
  \cup {Activity("task", tasks[t]) :
      t \in {k \in DOMAIN tasks : tasks[k].user = u /\ ~tasks[k].isArchived}}
  \cup {Activity("invoice", invoices[i]) :
      i \in {k \in DOMAIN invoices : invoices[k].user = u}}

\* the limit a request asked for, the default if it named none
RequestedLimit(request) == IF request.body.limit = NaN THEN DefaultLimit ELSE request.body.limit

\* C21: the recent-activity output is strictly descending by updatedAt and
\* holds exactly `limit` entries when the user has at least `limit` eligible
\* records, and all of them otherwise.
C21_RecentSortedAndTruncated ==
  last.op = "GET /dashboard/recent-activity"
  => /\ \A i \in 1..(Len(last.result) - 1) :
           last.result[i].updatedAt > last.result[i + 1].updatedAt
     /\ Len(last.result) =
          (IF Cardinality(EligibleActivities(last.user)) < RequestedLimit(last)
           THEN Cardinality(EligibleActivities(last.user))
           ELSE RequestedLimit(last))

\* C29: for a limit up to the default, no eligible record that is among the
\* `limit` most recently updated is missing from the recent-activity output:
\* a record is left out only when the output is full and holds nothing older.
C29_RecentIsTopLimit ==
  ( last.op = "GET /dashboard/recent-activity" /\ RequestedLimit(last) <= DefaultLimit )
  => \A e \in EligibleActivities(last.user) :
        (\A i \in 1..Len(last.result) : last.result[i] # e)
        => /\ Len(last.result) >= RequestedLimit(last)
           /\ \A i \in 1..Len(last.result) : last.result[i].updatedAt >= e.updatedAt

\* ------------------------------------------------------------------ dashboard: calendar
\* The dashboard routes compare dates within a day, a month and a year: their
\* clock counts instants, DayParts to a day (the first of them midnight),
\* DaysPerMonth days to a month, MonthsPerYear months to a year.  Instant 0 is
\* the midnight that starts a Sunday, the first day of a year.
DayParts == 2
DaysPerMonth == 8
MonthsPerYear == 2
\* Date.prototype.getDay counts the days of a week
DaysPerWeek == 7

\* the days from the first day of the calendar to the day of instant t
calDay(t) == t \div DayParts
\* Date.prototype.getDay: 0 is Sunday
calGetDay(t) == calDay(t) % DaysPerWeek
\* Date.prototype.getDate: the day of the month, from 1
calGetDate(t) == (calDay(t) % DaysPerMonth) + 1
\* Date.prototype.getMonth: the month of the year, from 0
calGetMonth(t) == (calDay(t) \div DaysPerMonth) % MonthsPerYear
\* Date.prototype.getFullYear, counted from the first year of the calendar
calGetFullYear(t) == (calDay(t) \div DaysPerMonth) \div MonthsPerYear
\* new Date(year, month, date): local midnight; month and date may overflow
calDate(year, month, date) ==
  (((year * MonthsPerYear + month) * DaysPerMonth) + (date - 1)) * DayParts
\* Date.prototype.setDate: the same time on another day of the month
calSetDate(t, date) == t + (date - calGetDate(t)) * DayParts

\* ------------------------------------------------------------------ dashboard: upcoming deadlines
\* parseInt(req.query.days) || 7
DefaultDays == 7
\* the most projects, and tasks, a deadline state holds; the largest limit asked
MaxDeadlineDocs == 2
MaxDeadlineLimit == 2

\* a filter without the status condition
UpcomingFilterAnyStatus(d, u, t, futureDate) ==
  /\ d.user = u
  /\ d.dueDate >= t /\ d.dueDate <= futureDate
  /\ ~d.isArchived

\* {user, status: {$nin: [completed, cancelled]}, dueDate: {$gte: new Date(),
\*  $lte: futureDate}, isArchived: false}
UpcomingFilter(d, u, t, futureDate) ==
  /\ d.user = u
  /\ d.status \notin {"completed", "cancelled"}
  /\ d.dueDate >= t /\ d.dueDate <= futureDate
  /\ ~d.isArchived

\* the deadline entry the route builds from a document
Deadline(type, doc) ==
  [type |-> type, id |-> doc._id, dueDate |-> doc.dueDate, status |-> doc.status]

Deadlines(type, docs) == [i \in 1..Len(docs) |-> Deadline(type, docs[i])]

\* GET /api/dashboard/upcoming-deadlines
GetUpcomingDeadlines(u, query) ==
  LET limit == QueryNumber(query.limit, DefaultLimit)
      daysAhead == QueryNumber(query.days, DefaultDays)
      futureDate == calSetDate(now, calGetDate(now) + daysAhead)
      Upcoming(d) == UpcomingFilter(d, u, now, futureDate)
      upcomingProjects == slice(MongoSort(Find(projects, Upcoming), "dueDate", 1), limit)
      upcomingTasks == slice(MongoSort(Find(tasks, Upcoming), "dueDate", 1), limit)
      deadlines == Deadlines("project", upcomingProjects)
                     \o Deadlines("task", upcomingTasks)
  IN /\ RespondWith("GET /dashboard/upcoming-deadlines", u, query,
                    slice(ArraySort(deadlines, "dueDate", 1), limit))
     /\ UNCHANGED <<steps, now, clients, projects, tasks, invoices, nextId, issued,
                    requests>>

\* what sets a stored project or task apart for upcoming-deadlines: its owner,
\* status, archive flag, and its dueDate as an offset from the request time
\* (now, a little later, a day later, past the default window, already past)
ProjectDeadlineProfiles ==
  {[user |-> "u1", status |-> "active", isArchived |-> FALSE, due |-> 0],
   [user |-> "u1", status |-> "planning", isArchived |-> FALSE, due |-> 1],
   [user |-> "u1", status |-> "active", isArchived |-> FALSE, due |-> DayParts],
   [user |-> "u1", status |-> "active", isArchived |-> FALSE,
    due |-> DefaultDays * DayParts + 1],
   [user |-> "u1", status |-> "active", isArchived |-> FALSE, due |-> -1],
   [user |-> "u1", status |-> "completed", isArchived |-> FALSE, due |-> 1],
   [user |-> "u1", status |-> "active", isArchived |-> TRUE, due |-> 1],
   [user |-> "u2", status |-> "active", isArchived |-> FALSE, due |-> 1]}

TaskDeadlineProfiles ==
  {[user |-> "u1", status |-> "todo", isArchived |-> FALSE, due |-> 0],
   [user |-> "u1", status |-> "in-progress", isArchived |-> FALSE, due |-> 1],
   [user |-> "u1", status |-> "cancelled", isArchived |-> FALSE, due |-> 1],
   [user |-> "u1", status |-> "review", isArchived |-> FALSE, due |-> DayParts + 1]}

\* stores for upcoming-deadlines: up to MaxDeadlineDocs projects and tasks,
\* each of one of the profiles, read at an instant after a midnight
InitDeadlines ==
  /\ steps = 0
  /\ now = DayParts + 1
  /\ clients = DashClients
  /\ invoices = <<>>
  /\ issued = <<>>
  /\ requests = <<>>
  /\ last = [op |-> "none", user |-> "none", id |-> 0, body |-> <<>>, code |-> 0]
  /\ \E np \in 0..MaxDeadlineDocs, nt \in 0..MaxDeadlineDocs :
        \E pp \in [1..np -> ProjectDeadlineProfiles], tp \in [1..nt -> TaskDeadlineProfiles] :
           /\ projects =
                [k \in 1..np |->
                   ObjectAssign(ProjectDefaults,
                     [_id |-> k, user |-> pp[k].user,
                      client |-> IF pp[k].user = "u1" THEN 1 ELSE 2,
                      status |-> pp[k].status, isArchived |-> pp[k].isArchived,
                      dueDate |-> now + pp[k].due])]
           /\ tasks =
                [k \in 1..nt |->
                   ObjectAssign(TaskDefaults,
                     [_id |-> k, user |-> tp[k].user, project |-> 1,
                      status |-> tp[k].status, isArchived |-> tp[k].isArchived,
                      dueDate |-> now + tp[k].due])]
           /\ nextId = [client |-> 3, project |-> np + 1, task |-> nt + 1, invoice |-> 1]

\* the limit and days parameters of a request: absent, or a positive number
DeadlineQueries ==
  {[limit |-> l, days |-> d] : l \in {NaN} \cup 1..MaxDeadlineLimit, d \in {NaN, 1}}

NextDeadlines ==
  \E u \in Users, query \in DeadlineQueries : GetUpcomingDeadlines(u, query)

SpecDeadlines == InitDeadlines /\ [][NextDeadlines]_vars

\* the days a request asked for, the default if it named none
RequestedDays(request) == IF request.body.days = NaN THEN DefaultDays ELSE request.body.days

\* the caller's non-archived projects and tasks that are neither completed nor
\* cancelled and are due within `days` days from now
EligibleDeadlines(u, days) ==
  LET Due(d) == /\ d.user = u /\ ~d.isArchived
                /\ d.status # "completed" /\ d.status # "cancelled"
                /\ now <= d.dueDate /\ d.dueDate <= now + days * DayParts
  IN {Deadline("project", projects[p]) : p \in {k \in DOMAIN projects : Due(projects[k])}}
     \cup {Deadline("task", tasks[t]) : t \in {k \in DOMAIN tasks : Due(tasks[k])}}

\* C22: the upcoming-deadlines output holds only eligible items, each once, in
\* ascending order of dueDate, at most `limit` of them, and an eligible item
\* is left out only when the output is full and holds nothing due later.
C22_DeadlinesEarliestEligible ==
  last.op = "GET /dashboard/upcoming-deadlines"
  => LET out == last.result
         eligible == EligibleDeadlines(last.user, RequestedDays(last))
     IN /\ \A i \in 1..Len(out) : out[i] \in eligible
        /\ \A i, j \in 1..Len(out) : i < j => (out[i] # out[j] /\ out[i].dueDate <= out[j].dueDate)
        /\ Len(out) <= RequestedLimit(last)
        /\ \A e \in eligible :
              (\A i \in 1..Len(out) : out[i] # e)
              => /\ Len(out) = RequestedLimit(last)
                 /\ \A i \in 1..Len(out) : out[i].dueDate <= e.dueDate

\* C22 witness: a request with a limit got a full output that mixes a project
\* and a task, while a completed or cancelled item and a later eligible item
\* of the caller stayed out.
C22_Witness ==
  /\ last.op = "GET /dashboard/upcoming-deadlines"
  /\ last.body.limit # NaN
  /\ Len(last.result) = last.body.limit
  /\ \E i, j \in 1..Len(last.result) :
        last.result[i].type = "project" /\ last.result[j].type = "task"
  /\ \E e \in EligibleDeadlines(last.user, RequestedDays(last)) :
        \A i \in 1..Len(last.result) : last.result[i] # e
  /\ \E p \in DOMAIN projects :
        projects[p].user = last.user /\ projects[p].status = "completed"

\* ------------------------------------------------------------------ dashboard: overview
\* Model.countDocuments(filter)
countDocuments(coll, Keep(_)) == Cardinality(Find(coll, Keep))

\* {$sum: '$field'} over a set of documents
RECURSIVE SumOf(_, _)
SumOf(docs, field) ==
  IF docs = {} THEN 0
  ELSE LET d == CHOOSE x \in docs : TRUE
       IN d[field] + SumOf(docs \ {d}, field)

\* {$group: {_id: '$status', count: {$sum: 1}, totalAmount: {$sum: '$total'}}}:
\* one entry for each status that occurs
GroupByStatus(docs, field) ==
  [st \in {d.status : d \in docs} |->
     [count |-> Cardinality({d \in docs : d.status = st}),
      totalAmount |-> SumOf({d \in docs : d.status = st}, field)]]

\* the forEach over the groups: what the groups of the statuses in `keys` add up to
RECURSIVE SumStat(_, _, _)
SumStat(stats, keys, field) ==
  IF keys = {} THEN 0
  ELSE LET st == CHOOSE x \in keys : TRUE
       IN stats[st][field] + SumStat(stats, keys \ {st}, field)

\* the count of the group of a status, 0 when no document has it
StatCount(stats, st) == IF st \in DOMAIN stats THEN stats[st].count ELSE 0

\* a pending bucket that holds the sent invoices only
sentOnly == {"sent"}

\* ['sent', 'viewed']
pendingStatuses == {"sent", "viewed"}

\* the invoice figures of the overview
InvoiceFigures(u) ==
  LET Mine(d) == d.user = u
      Overdue(d) == d.user = u /\ d.status \in {"sent", "viewed"} /\ d.dueDate < now
      invoiceStats == GroupByStatus(Find(invoices, Mine), "total")
  IN [total |-> SumStat(invoiceStats, DOMAIN invoiceStats, "count"),
      paid |-> StatCount(invoiceStats, "paid"),
      pending |-> SumStat(invoiceStats, DOMAIN invoiceStats \cap pendingStatuses, "count"),
      overdue |-> countDocuments(invoices, Overdue),
      totalRevenue |-> IF "paid" \in DOMAIN invoiceStats
                         THEN invoiceStats["paid"].totalAmount ELSE 0,
      pendingAmount |-> SumStat(invoiceStats, DOMAIN invoiceStats \cap pendingStatuses,
                                "totalAmount")]

\* GET /api/dashboard/overview.  setDate changes `today` itself: after the two
\* calls it is the Saturday of the current week, and the month bounds are
\* taken from that day.
GetOverview(u) ==
  LET today == now
      startOfWeek == calSetDate(today, calGetDate(today) - calGetDay(today))
      endOfWeek == calSetDate(startOfWeek,
                              calGetDate(startOfWeek) - calGetDay(startOfWeek) + 6)
      startOfMonth == calDate(calGetFullYear(endOfWeek), calGetMonth(endOfWeek), 1)
      endOfMonth == calDate(calGetFullYear(endOfWeek), calGetMonth(endOfWeek) + 1, 0)
      Open(d) == d.user = u /\ ~d.isArchived
      Late(d) == /\ d.user = u /\ d.status \notin {"completed", "cancelled"}
                 /\ d.dueDate # NoDate /\ d.dueDate < now /\ ~d.isArchived
      Mine(d) == d.user = u
      Active(d) == d.user = u /\ d.status = "active"
      New(d) == d.user = u /\ d.createdAt >= startOfMonth /\ d.createdAt <= endOfMonth
      projectStats == GroupByStatus(Find(projects, Open), "progress")
      taskStats == GroupByStatus(Find(tasks, Open), "progress")
      invoiceFigures == InvoiceFigures(u)
  IN /\ RespondWith("GET /dashboard/overview", u, <<>>,
          [projects |-> [total |-> countDocuments(projects, Open),
                         active |-> StatCount(projectStats, "active"),
                         completed |-> StatCount(projectStats, "completed"),
                         planning |-> StatCount(projectStats, "planning"),
                         onHold |-> StatCount(projectStats, "on-hold")],
           tasks |-> [total |-> countDocuments(tasks, Open),
                      todo |-> StatCount(taskStats, "todo"),
                      inProgress |-> StatCount(taskStats, "in-progress"),
                      review |-> StatCount(taskStats, "review"),
                      completed |-> StatCount(taskStats, "completed")],
           clients |-> [total |-> countDocuments(clients, Mine),
                        active |-> countDocuments(clients, Active),
                        newThisMonth |-> countDocuments(clients, New)],
           invoices |-> invoiceFigures,
           overdue |-> [projects |-> countDocuments(projects, Late),
                        tasks |-> countDocuments(tasks, Late),
                        invoices |-> invoiceFigures.overdue]])
     /\ UNCHANGED <<steps, now, clients, projects, tasks, invoices, nextId, issued,
                    requests>>

\* the most invoices an overview state holds
MaxOverviewInvoices == 3

\* what sets a stored invoice apart for the overview: its owner, its status,
\* and its dueDate as an offset from the request time
InvoiceOverviewProfiles ==
  {[user |-> "u1", status |-> "draft", due |-> -1],
   [user |-> "u1", status |-> "sent", due |-> -1],
   [user |-> "u1", status |-> "sent", due |-> 0],
   [user |-> "u1", status |-> "viewed", due |-> -1],
   [user |-> "u1", status |-> "viewed", due |-> 1],
   [user |-> "u1", status |-> "paid", due |-> -1],
   [user |-> "u1", status |-> "overdue", due |-> -1],
   [user |-> "u1", status |-> "cancelled", due |-> 1],
   [user |-> "u2", status |-> "sent", due |-> -1]}

\* the instants of the first year of the calendar, after its first
YearInstants == 1..(DayParts * DaysPerMonth * MonthsPerYear - 1)

\* the instants a stored date is drawn from: the first year and the first day
\* of the next
StoredInstants == 1..(DayParts * DaysPerMonth * MonthsPerYear + DayParts - 1)

\* a client of each user, created at the given instants
ClientsCreatedAt(c1, c2) ==
  [k \in 1..2 |-> [_id |-> k, user |-> IF k = 1 THEN "u1" ELSE "u2",
                   email |-> ClientEmail, status |-> "active",
                   createdAt |-> IF k = 1 THEN c1 ELSE c2]]

\* stores for the overview.  Either up to MaxOverviewInvoices invoices, each of
\* one of the profiles and with a total of its own, beside a late project and
\* a task still to come; or no invoice, the request at any instant of a year
\* and the client of u1 created at any instant.
InitOverview ==
  /\ steps = 0
  /\ issued = <<>>
  /\ requests = <<>>
  /\ last = [op |-> "none", user |-> "none", id |-> 0, body |-> <<>>, code |-> 0]
  /\ \/ /\ now = DayParts + 1
        /\ clients = ClientsCreatedAt(1, 1)
        /\ projects = (1 :> ObjectAssign(ProjectDefaults,
                              [_id |-> 1, user |-> "u1", client |-> 1,
                               status |-> "active", dueDate |-> now - 1]))
        /\ tasks = (1 :> ObjectAssign(TaskDefaults,
                           [_id |-> 1, user |-> "u1", project |-> 1,
                            dueDate |-> now + 1]))
        /\ \E ni \in 0..MaxOverviewInvoices :
              \E ip \in [1..ni -> InvoiceOverviewProfiles] :
                 /\ invoices =
                      [k \in 1..ni |->
                         ObjectAssign(InvoiceDefaults,
                           [_id |-> k, user |-> ip[k].user,
                            client |-> IF ip[k].user = "u1" THEN 1 ELSE 2,
                            items |-> <<>>,
                            invoiceNumber |-> FormatInvoiceNumber(FirstYear, k),
                            status |-> ip[k].status, dueDate |-> now + ip[k].due,
                            total |-> 150 * k])]
                 /\ nextId = [client |-> 3, project |-> 2, task |-> 2, invoice |-> ni + 1]
     \/ /\ now \in YearInstants
        /\ \E c \in StoredInstants : clients = ClientsCreatedAt(c, now)
        /\ projects = <<>>
        /\ tasks = <<>>
        /\ invoices = <<>>
        /\ nextId = [client |-> 3, project |-> 1, task |-> 1, invoice |-> 1]

NextOverview == \E u \in Users : GetOverview(u)

SpecOverview == InitOverview /\ [][NextOverview]_vars

\* the invoices of user u with one of the given statuses
InvoicesOf(u, statuses) ==
  {i \in DOMAIN invoices : invoices[i].user = u /\ invoices[i].status \in statuses}

\* the sum of total over a set of invoices
RECURSIVE TotalOver(_)
TotalOver(ids) ==
  IF ids = {} THEN 0
  ELSE LET i == CHOOSE x \in ids : TRUE
       IN invoices[i].total + TotalOver(ids \ {i})

\* C23: the invoice figures of the overview are: total, the user's invoices of
\* every status; paid and totalRevenue, the count and the sum of total of the
\* paid ones; pending and pendingAmount, those of the sent and viewed ones
\* together; overdue, the sent or viewed ones due before now, never more than
\* pending.
C23_OverviewInvoiceFigures ==
  last.op = "GET /dashboard/overview"
  => LET u == last.user
         figures == last.result.invoices
     IN /\ figures.total = Cardinality({i \in DOMAIN invoices : invoices[i].user = u})
        /\ figures.paid = Cardinality(InvoicesOf(u, {"paid"}))
        /\ figures.totalRevenue = TotalOver(InvoicesOf(u, {"paid"}))
        /\ figures.pending = Cardinality(InvoicesOf(u, {"sent", "viewed"}))
        /\ figures.pendingAmount = TotalOver(InvoicesOf(u, {"sent", "viewed"}))
        /\ figures.overdue =
             Cardinality({i \in InvoicesOf(u, {"sent", "viewed"}) : invoices[i].dueDate < now})
        /\ figures.overdue <= figures.pending

\* C23 witness: an overview of a user with a paid, a sent and a viewed invoice,
\* one of the two pending ones overdue.
C23_Witness ==
  /\ last.op = "GET /dashboard/overview"
  /\ last.result.invoices.paid = 1
  /\ last.result.invoices.pending = 2
  /\ last.result.invoices.overdue = 1
  /\ InvoicesOf(last.user, {"sent"}) # {}
  /\ InvoicesOf(last.user, {"viewed"}) # {}
  /\ last.result.invoices.totalRevenue > 0

\* the month an instant lies in, counted from the first month of the calendar
MonthOf(t) == calDay(t) \div DaysPerMonth

\* C24: clients.newThisMonth is the number of the caller's clients created in
\* the calendar month of the request, whatever the day of the request.
C24_NewThisMonthIsCalendarMonth ==
  last.op = "GET /dashboard/overview"
  => last.result.clients.newThisMonth =
       Cardinality({c \in DOMAIN clients :
                      /\ clients[c].user = last.user
                      /\ MonthOf(clients[c].createdAt) = MonthOf(now)})

\* ------------------------------------------------------------------ dashboard: productivity
\* now.getDate() - 7
TrailingDays == 7

\* GET /api/dashboard/productivity-stats, for the periods the route knows; the
\* average is kept as the pair of the hours and the days they are divided by
GetProductivityStats(u, query) ==
  LET period == IF Has(query, "period") THEN query.period ELSE "week"
      startDate == IF period = "week" THEN calSetDate(now, calGetDate(now) - TrailingDays)
                   ELSE IF period = "month"
                   THEN calDate(calGetFullYear(now), calGetMonth(now), 1)
                   ELSE calDate(calGetFullYear(now), 0, 1)
      endDate == IF period = "week" THEN now
                 ELSE IF period = "month"
                 THEN calDate(calGetFullYear(now), calGetMonth(now) + 1, 0)
                 ELSE calDate(calGetFullYear(now), MonthsPerYear - 1, DaysPerMonth)
      Completed(d) == /\ d.user = u /\ d.status = "completed"
                      /\ d.completedDate >= startDate /\ d.completedDate <= endDate
      Logged(d) == /\ d.user = u /\ d.actualHours > 0
                   /\ d.updatedAt >= startDate /\ d.updatedAt <= endDate
      Paid(d) == /\ d.user = u /\ d.status = "paid"
                 /\ d.paidDate >= startDate /\ d.paidDate <= endDate
      totalHours == SumOf(Find(tasks, Logged), "actualHours")
  IN /\ RespondWith("GET /dashboard/productivity-stats", u, query,
          [period |-> period,
           tasksCompleted |-> countDocuments(tasks, Completed),
           projectsCompleted |-> countDocuments(projects, Completed),
           totalHours |-> totalHours,
           totalRevenue |-> SumOf(Find(invoices, Paid), "total"),
           averageHoursPerDay |->
             <<totalHours, IF period = "week" THEN 7 ELSE IF period = "month" THEN 30 ELSE 365>>])
     /\ UNCHANGED <<steps, now, clients, projects, tasks, invoices, nextId, issued,
                    requests>>

\* stores for productivity-stats: a task, a project and an invoice of u1, all
\* three completed or paid at the same instant, or none of them; the request
\* at any instant of a year
InitProductivity ==
  /\ steps = 0
  /\ now \in YearInstants
  /\ clients = DashClients
  /\ issued = <<>>
  /\ requests = <<>>
  /\ last = [op |-> "none", user |-> "none", id |-> 0, body |-> <<>>, code |-> 0]
  /\ nextId = [client |-> 3, project |-> 2, task |-> 2, invoice |-> 2]
  /\ \E d \in StoredInstants, done \in BOOLEAN :
        /\ projects = (1 :> ObjectAssign(ProjectDefaults,
                              [_id |-> 1, user |-> "u1", client |-> 1,
                               status |-> IF done THEN "completed" ELSE "active",
                               completedDate |-> IF done THEN d ELSE NoDate]))
        /\ tasks = (1 :> ObjectAssign(TaskDefaults,
                           [_id |-> 1, user |-> "u1", project |-> 1,
                            status |-> IF done THEN "completed" ELSE "todo",
                            completedDate |-> IF done THEN d ELSE NoDate,
                            actualHours |-> 2, updatedAt |-> d]))
        /\ invoices = (1 :> ObjectAssign(InvoiceDefaults,
                              [_id |-> 1, user |-> "u1", client |-> 1, items |-> <<>>,
                               invoiceNumber |-> FormatInvoiceNumber(FirstYear, 1),
                               status |-> IF done THEN "paid" ELSE "sent",
                               paidDate |-> IF done THEN d ELSE NoDate,
                               total |-> 150]))

\* req.query of productivity-stats: no period, or one the route knows
PeriodQueries == {<<>>} \cup {[period |-> p] : p \in {"week", "month", "year"}}

NextProductivity == \E u \in Users, query \in PeriodQueries : GetProductivityStats(u, query)

SpecProductivity == InitProductivity /\ [][NextProductivity]_vars

\* the period of the claim: the calendar month or year of now, or the seven
\* days that end now
InPeriod(period, t) ==
  IF period = "week" THEN now - 7 * DayParts <= t /\ t <= now
  ELSE IF period = "month" THEN MonthOf(t) = MonthOf(now)
  ELSE calGetFullYear(t) = calGetFullYear(now)

\* C25: productivity-stats counts every completed task and project whose
\* completedDate, and sums every paid invoice whose paidDate, lies in the
\* current calendar month (period month), the current calendar year (period
\* year), their last day included, or the seven days ending now (period week).
C25_ProductivityWholePeriod ==
  last.op = "GET /dashboard/productivity-stats"
  => LET u == last.user
         period == last.result.period
     IN /\ last.result.tasksCompleted =
             Cardinality({t \in DOMAIN tasks :
                            /\ tasks[t].user = u /\ tasks[t].status = "completed"
                            /\ InPeriod(period, tasks[t].completedDate)})
        /\ last.result.projectsCompleted =
             Cardinality({p \in DOMAIN projects :
                            /\ projects[p].user = u /\ projects[p].status = "completed"
                            /\ InPeriod(period, projects[p].completedDate)})
        /\ last.result.totalRevenue =
             TotalOver({i \in InvoicesOf(u, {"paid"}) : InPeriod(period, invoices[i].paidDate)})

====
